---- MODULE Spec2Model ----
(***************************************************************************)
(* VMC water level scraper: the three script variants                      *)
(*   scrape_water_level.py           (requests, table id only)             *)
(*   scrape_water_level_selenium.py  (headless browser, retries)           *)
(*   scrape_water_level_v3.py        (layered strategies, mock fallback)   *)
(* modelled as sequential state machines over a small DOM model.           *)
(*                                                                         *)
(* Python str values are sequences of one-character strings, so that       *)
(* strip(), lower(), 'in' and re.match are computed and not assumed.       *)
(* A page is a sequence of top-level tables; a table is a record           *)
(* [id, cls, rows]; a row is a sequence of cells; a cell is a record       *)
(* [tag, text, tables] whose tables are the tables nested in the cell.     *)
(* BeautifulSoup's find_all is recursive: it returns every descendant in   *)
(* document order, nested tables' rows and cells included.                 *)
(***************************************************************************)
EXTENDS Integers, Sequences, FiniteSets, TLC

(***************************************************************************)
(* Bounds of the model                                                     *)
(***************************************************************************)
\* the wall clock runs from 0 to MaxClock seconds
MaxClock == 2
\* rows of a table of the row-extraction inputs
MaxRows == 2
\* orders random.shuffle may leave the proxy list in
MaxShuffles == 2

(***************************************************************************)
(* Python values                                                           *)
(***************************************************************************)
None == [type |-> "NoneType"]
PyStr(s) == [type |-> "str", val |-> s]
PyFloat(x) == [type |-> "float", val |-> x]
PyList(xs) == [type |-> "list", val |-> xs]

\* Python truth value: None, "" and [] are false
Truthy(v) ==
    CASE v.type = "NoneType" -> FALSE
      [] v.type = "str" -> v.val # <<>>
      [] v.type = "list" -> v.val # <<>>
      [] OTHER -> TRUE

(***************************************************************************)
(* str operations                                                          *)
(***************************************************************************)
Whitespace == {" ", "\t", "\n"}
Digits == {"0", "1", "2", "3", "4", "5", "6", "7", "8", "9"}
UpperCase == <<"A","B","C","D","E","F","G","H","I","J","K","L","M",
               "N","O","P","Q","R","S","T","U","V","W","X","Y","Z">>
LowerCase == <<"a","b","c","d","e","f","g","h","i","j","k","l","m",
               "n","o","p","q","r","s","t","u","v","w","x","y","z">>

LowerChar(c) ==
    IF \E k \in 1..Len(UpperCase) : UpperCase[k] = c
    THEN LowerCase[CHOOSE k \in 1..Len(UpperCase) : UpperCase[k] = c]
    ELSE c

\* str.lower()
Lower(s) == [k \in 1..Len(s) |-> LowerChar(s[k])]

\* sub in s
Contains(sub, s) ==
    \E k \in 0..(Len(s) - Len(sub)) : SubSeq(s, k + 1, k + Len(sub)) = sub

RECURSIVE LStrip(_)
LStrip(s) == IF s # <<>> /\ Head(s) \in Whitespace THEN LStrip(Tail(s)) ELSE s

RECURSIVE RStrip(_)
RStrip(s) ==
    IF s # <<>> /\ s[Len(s)] \in Whitespace
    THEN RStrip(SubSeq(s, 1, Len(s) - 1))
    ELSE s

\* str.strip()
Strip(s) == RStrip(LStrip(s))

\* re.match(r'^[\d.]+$', s): one or more digits or dots, then the end of the
\* string or a final newline
AllNumericChars(s) == s # <<>> /\ \A k \in 1..Len(s) : s[k] \in Digits \cup {"."}

NumericMatch(s) ==
    \/ AllNumericChars(s)
    \/ /\ s # <<>>
       /\ s[Len(s)] = "\n"
       /\ AllNumericChars(SubSeq(s, 1, Len(s) - 1))

\* two decimal digits of n (0..99)
DigitChars == <<"0", "1", "2", "3", "4", "5", "6", "7", "8", "9">>
TwoDigits(n) == <<DigitChars[(n \div 10) + 1], DigitChars[(n % 10) + 1]>>

\* decimal digits of a natural number
RECURSIVE NatStr(_)
NatStr(n) == IF n < 10 THEN <<DigitChars[n + 1]>>
             ELSE NatStr(n \div 10) \o <<DigitChars[(n % 10) + 1]>>

(***************************************************************************)
(* The wall clock.  The clock counts seconds from 2024-01-01 00:00:00 and  *)
(* a day of the model has DayLen seconds.                                  *)
(***************************************************************************)
DayLen == 2
DayOf(t) == t \div DayLen
SecOf(t) == t % DayLen

\* strftime('%Y-%m-%d')
StrfYmd(t) == <<"2","0","2","4","-","0","1","-">> \o TwoDigits(DayOf(t) + 1)
\* strftime('%H:%M:%S')
StrfHms(t) == <<"0","0",":","0","0",":">> \o TwoDigits(SecOf(t))
\* strftime('%Y-%m-%d %H:%M:%S')
StrfYmdHms(t) == StrfYmd(t) \o <<" ">> \o StrfHms(t)
\* strftime('%d-%m-%Y %H:%M:%S')
StrfDmyHms(t) ==
    TwoDigits(DayOf(t) + 1) \o <<"-","0","1","-","2","0","2","4">>
        \o <<" ">> \o StrfHms(t)

(***************************************************************************)
(* DOM: generic sequence helpers                                           *)
(***************************************************************************)
RECURSIVE Flatten(_)
Flatten(ss) == IF ss = <<>> THEN <<>> ELSE Head(ss) \o Flatten(Tail(ss))

(***************************************************************************)
(* DOM elements (bs4 Tag objects)                                          *)
(***************************************************************************)
Td(text) == [type |-> "td", text |-> text, tables |-> <<>>]
Th(text) == [type |-> "th", text |-> text, tables |-> <<>>]
TdWith(text, t) == [type |-> "td", text |-> text, tables |-> <<t>>]
Table(id, cls, rows) == [type |-> "table", id |-> id, cls |-> cls, rows |-> rows]
Page(body, tables) == [body |-> body, tables |-> tables]

RECURSIVE TablesIn(_)
RECURSIVE TrsIn(_)
RECURSIVE TdsIn(_)
RECURSIVE TextOf(_)
RECURSIVE TextNodesIn(_)

\* t.find_all('table') plus t itself, in document order
TablesIn(t) ==
    <<t>> \o Flatten([r \in 1..Len(t.rows) |->
              Flatten([c \in 1..Len(t.rows[r]) |->
                Flatten([k \in 1..Len(t.rows[r][c].tables) |->
                  TablesIn(t.rows[r][c].tables[k])])])])

\* t.find_all('tr'): every descendant row, rows of nested tables included
TrsIn(t) ==
    Flatten([r \in 1..Len(t.rows) |->
        <<t.rows[r]>> \o
        Flatten([c \in 1..Len(t.rows[r]) |->
          Flatten([k \in 1..Len(t.rows[r][c].tables) |->
            TrsIn(t.rows[r][c].tables[k])])])])

\* row.find_all('td'): every descendant td, cells of nested tables included
TdsIn(row) ==
    Flatten([c \in 1..Len(row) |->
        (IF row[c].type = "td" THEN <<row[c]>> ELSE <<>>) \o
        Flatten([k \in 1..Len(row[c].tables) |->
          Flatten([r \in 1..Len(row[c].tables[k].rows) |->
            TdsIn(row[c].tables[k].rows[r])])])])

\* cell.text: the cell's own text followed by the text of what it contains
TextOf(cell) ==
    cell.text \o
    Flatten([k \in 1..Len(cell.tables) |->
      Flatten([r \in 1..Len(cell.tables[k].rows) |->
        Flatten([c \in 1..Len(cell.tables[k].rows[r]) |->
          TextOf(cell.tables[k].rows[r][c])])])])

\* the text nodes below a table, in document order
TextNodesIn(t) ==
    Flatten([r \in 1..Len(t.rows) |->
      Flatten([c \in 1..Len(t.rows[r]) |->
        (IF t.rows[r][c].text # <<>> THEN <<t.rows[r][c].text>> ELSE <<>>) \o
        Flatten([k \in 1..Len(t.rows[r][c].tables) |->
          TextNodesIn(t.rows[r][c].tables[k])])])])

\* soup.find_all('table')
FindAllTables(soup) ==
    Flatten([k \in 1..Len(soup.tables) |-> TablesIn(soup.tables[k])])

\* cell.find('table')
FindTable(cell) == IF cell.tables = <<>> THEN None ELSE cell.tables[1]

\* table.find('td')
FindTd(t) ==
    LET tds == Flatten([r \in 1..Len(t.rows) |-> TdsIn(t.rows[r])])
    IN  IF tds = <<>> THEN None ELSE tds[1]

\* first element of a sequence of tags passing a test, or None
FirstOr(s, Test(_)) ==
    IF \E k \in 1..Len(s) : Test(s[k])
    THEN s[CHOOSE k \in 1..Len(s) :
               Test(s[k]) /\ \A j \in 1..(k - 1) : ~Test(s[j])]
    ELSE None

(***************************************************************************)
(* Words the code looks for                                                *)
(***************************************************************************)
sGridView1 == <<"G","r","i","d","V","i","e","w","1">>
sWaterLevel == <<"w","a","t","e","r"," ","l","e","v","e","l">>
sTableTag == <<"<","t","a","b","l","e">>
sTable == <<"t","a","b","l","e">>
sGrid == <<"g","r","i","d">>

(***************************************************************************)
(* Program constants                                                       *)
(***************************************************************************)
\* "if len(rows) > 5": the row count a table must exceed in approach 4
RowThreshold == 5
\* "if len(cols) >= 2": td cells a row needs to count as a data row
MinCols == 2
\* "find_all('tr')[2:]" and "if len(cols) < 3" of scrape_water_level.py
HeaderRowsV1 == 2
MinColsV1 == 3

(***************************************************************************)
(* Table locator                                                           *)
(***************************************************************************)
\* soup.find('table', {'id': 'GridView1'})
FindById(soup) == FirstOr(FindAllTables(soup), LAMBDA t : t.id = sGridView1)

\* soup.find('table', {'class': lambda x: x and word in x.lower()})
FindByClass(soup, word) ==
    FirstOr(FindAllTables(soup),
            LAMBDA t : t.cls # <<>> /\ Contains(word, Lower(t.cls)))

\* t.find(text=lambda x: x and 'water level' in x.lower())
HasWaterLevelText(t) ==
    \E k \in 1..Len(TextNodesIn(t)) :
        Contains(sWaterLevel, Lower(TextNodesIn(t)[k]))

\* approach 3: the loop over soup.find_all('table') that breaks on the first
\* table holding a 'water level' text
FindByText(tables) == FirstOr(tables, HasWaterLevelText)

\* approach 4: the loop that breaks on the first table with more than
\* RowThreshold rows
FindByRowsLargestMutant(tables) ==
    IF tables = <<>> THEN None
    ELSE tables[CHOOSE k \in 1..Len(tables) :
                  /\ \A j \in 1..Len(tables) :
                        Len(TrsIn(tables[j])) <= Len(TrsIn(tables[k]))
                  /\ \A j \in 1..(k - 1) :
                        Len(TrsIn(tables[j])) < Len(TrsIn(tables[k]))]
FindByRows(tables) ==
    FirstOr(tables, LAMBDA t : Len(TrsIn(t)) > RowThreshold)

\* the four approaches of extract_data_from_html (word 'table') and of the
\* Selenium extractors (word 'grid'), in the order the code tries them
LocateTableTextFirstMutant(soup, word) ==
    LET tables == FindAllTables(soup) IN
    IF Truthy(FindById(soup))
    THEN [table |-> FindById(soup), approach_used |-> "id"]
    ELSE IF Truthy(FindByText(tables))
    THEN [table |-> FindByText(tables), approach_used |-> "text"]
    ELSE IF Truthy(FindByClass(soup, word))
    THEN [table |-> FindByClass(soup, word), approach_used |-> "class"]
    ELSE IF Truthy(FindByRows(tables))
    THEN [table |-> FindByRows(tables), approach_used |-> "rows"]
    ELSE [table |-> None, approach_used |-> "none"]
LocateTable(soup, word) ==
    LET tables == FindAllTables(soup) IN
    IF Truthy(FindById(soup))
    THEN [table |-> FindById(soup), approach_used |-> "id"]
    ELSE IF Truthy(FindByClass(soup, word))
    THEN [table |-> FindByClass(soup, word), approach_used |-> "class"]
    ELSE IF Truthy(FindByText(tables))
    THEN [table |-> FindByText(tables), approach_used |-> "text"]
    ELSE IF Truthy(FindByRows(tables))
    THEN [table |-> FindByRows(tables), approach_used |-> "rows"]
    ELSE [table |-> None, approach_used |-> "none"]

\* scrape_with_selenium_and_proxy: id, then class containing 'table'
LocateTableIdClass(soup) ==
    IF Truthy(FindById(soup))
    THEN [table |-> FindById(soup), approach_used |-> "id"]
    ELSE IF Truthy(FindByClass(soup, sTable))
    THEN [table |-> FindByClass(soup, sTable), approach_used |-> "class"]
    ELSE [table |-> None, approach_used |-> "none"]

\* scrape_water_level.py: id only
LocateTableIdOnly(soup) ==
    IF Truthy(FindById(soup))
    THEN [table |-> FindById(soup), approach_used |-> "id"]
    ELSE [table |-> None, approach_used |-> "none"]

(***************************************************************************)
(* Row extractor                                                           *)
(***************************************************************************)
Record(location, water_level, date_time) ==
    ("Location" :> location) @@ ("Water Level (Feet)" :> water_level)
        @@ ("Date & Time" :> date_time)

\* rows of the table with at least MinCols td cells
DataRows(t) == SelectSeq(TrsIn(t), LAMBDA row : Len(TdsIn(row)) >= MinCols)

\* the value read from a cell: the first td of the table nested in it when
\* there is a nested table ("" when that table has no td), else its own text
CellValue(cell) ==
    IF Truthy(FindTable(cell))
    THEN IF Truthy(FindTd(FindTable(cell)))
         THEN Strip(TextOf(FindTd(FindTable(cell))))
         ELSE <<>>
    ELSE Strip(TextOf(cell))

\* date_time of a row, given its td cells and the time captured before the loop
DateTimeOfNoFallbackMutant(cols, captured) ==
    IF Len(cols) > 2
    THEN IF NumericMatch(CellValue(cols[3])) THEN captured ELSE CellValue(cols[3])
    ELSE captured
DateTimeOf(cols, captured) ==
    LET date_time ==
            IF Len(cols) > 2
            THEN IF NumericMatch(CellValue(cols[3]))
                 THEN captured
                 ELSE CellValue(cols[3])
            ELSE captured
    IN  IF date_time = <<>> THEN captured ELSE date_time

\* one iteration of the row loop: the records it appends (none or one)
ProcessRow(row, captured) ==
    LET cols == TdsIn(row) IN
    IF Len(cols) < MinCols THEN <<>>
    ELSE <<Record(PyStr(Strip(TextOf(cols[1]))),
                  PyStr(CellValue(cols[2])),
                  PyStr(DateTimeOf(cols, captured)))>>

\* one iteration of the row loop of scrape_water_level.py
ProcessRowV1(row) ==
    LET cols == TdsIn(row) IN
    IF Len(cols) < MinColsV1 THEN <<>>
    ELSE IF ~Truthy(FindTable(cols[2])) THEN <<>>
    ELSE IF ~Truthy(FindTd(FindTable(cols[2]))) THEN <<>>
    ELSE <<Record(PyStr(Strip(TextOf(cols[1]))),
                  PyStr(Strip(TextOf(FindTd(FindTable(cols[2]))))),
                  PyStr(Strip(TextOf(cols[3]))))>>

\* table.find_all('tr')[2:]
RowsV1(t) == SubSeq(TrsIn(t), HeaderRowsV1 + 1, Len(TrsIn(t)))

(***************************************************************************)
(* Mock generator                                                          *)
(***************************************************************************)
locations ==
    << <<"A","J","W","A"," ","D","A","M">>,
       <<"A","K","O","T","A"," ","B","R","I","D","G","E">>,
       <<"A","S","O","J"," ","F","E","E","D","E","R">>,
       <<"B","A","H","U","C","H","A","R","A","J","I"," ","B","R","I","D","G","E">>,
       <<"K","A","L","A"," ","G","H","O","D","A">>,
       <<"M","A","N","G","A","L"," ","P","A","N","D","E","Y"," ","B","R","I","D","G","E">>,
       <<"M","U","J","M","A","U","D","A"," ","B","R","I","D","G","E">>,
       <<"P","R","A","T","A","P","P","U","R","A"," ","D","A","M">>,
       <<"S","A","M","A"," ","H","A","R","N","I"," ","B","R","I","D","G","E">>,
       <<"V","A","D","S","A","R"," ","B","R","I","D","G","E">> >>

\* random.uniform(0, 250) rounded to two decimals, counted in hundredths
MaxLevel == 250
Hundred == 100
LevelValues == 0..(MaxLevel * Hundred)

\* the outcomes of the ten random draws the model considers
RandomDrawsOverMutant == {[k \in 1..Len(locations) |-> MaxLevel * Hundred + k]}
RandomDraws ==
    {[k \in 1..Len(locations) |-> (base + (k - 1) * stride) % (MaxLevel * Hundred + 1)] :
        base \in {0, 1234, MaxLevel * Hundred}, stride \in {0, 2500}}

\* str() of a float that has at most two decimals, given in hundredths
FloatStr(h) ==
    NatStr(h \div Hundred) \o <<".">> \o
    (IF h % 10 = 0 THEN <<DigitChars[((h % Hundred) \div 10) + 1]>>
     ELSE TwoDigits(h % Hundred))

\* the record appended for one location
MockRecordNoStrMutant(location, water_level, captured) ==
    Record(PyStr(location), PyFloat(water_level), PyStr(captured))
MockRecord(location, water_level, captured) ==
    Record(PyStr(location), PyStr(FloatStr(water_level)), PyStr(captured))

\* generate_mock_data() called at time t when the random draws are draws
GenerateMockDataEmptyMutant(t, draws) == <<>>
GenerateMockData(t, draws) ==
    [k \in 1..Len(locations) |-> MockRecord(locations[k], draws[k], StrfDmyHms(t))]

(***************************************************************************)
(* Input pages                                                             *)
(***************************************************************************)
tLoc == <<"A">>
tLocPadded == <<" ", "B", "\n">>
tLevel == <<"1", ".", "5">>
tLevelPadded == <<" ", "7", " ">>
tLevelUnit == <<"5", "f", "t">>
tDate == <<"3", "-", "1", " ", "9", ":", "0">>
tDatePadded == <<"\n", "4", "-", "1", " ">>
tBlank == <<" ">>
tHeading == <<"W", "a", "t", "e", "r", " ", "L", "E", "V", "E", "L">>
tOther == <<"x">>

NoAttr == <<>>
Nested(rows) == Table(NoAttr, NoAttr, rows)

\* rows a table of the page may hold
SampleRows ==
    { <<Td(tLoc), Td(tLevel)>>,
      <<Td(tLocPadded), Td(tLevelPadded), Td(tDatePadded)>>,
      <<Td(tLoc), TdWith(<<>>, Nested(<<<<Td(tLevel)>>>>)), Td(tDate)>>,
      <<Td(tLoc), TdWith(<<>>, Nested(<<<<Td(tLevelUnit)>>>>))>>,
      <<Td(tLoc), TdWith(tOther, Nested(<<>>)), Td(tDate)>>,
      <<Td(tLoc), Td(tLevel), Td(tLevel)>>,
      <<Td(tLoc), Td(tLevel), TdWith(<<>>, Nested(<<<<Td(tDate)>>>>))>>,
      <<Td(tLoc), Td(tLevel), Td(tBlank)>>,
      <<Td(tLoc), Td(tLevel), TdWith(tOther, Nested(<<<<Th(tOther)>>>>))>>,
      <<Th(tOther), Th(tHeading), Th(tOther)>>,
      <<Td(tLoc)>>,
      <<TdWith(tLoc, Nested(<<<<Td(tOther)>>>>)), Td(tLevel)>>,
      <<Td(tLoc), TdWith(<<>>, Nested(<<<<Td(tLevel), Td(tDate)>>>>))>>,
      <<Td(tLoc), TdWith(<<>>, Nested(<<<<Td(tBlank)>>>>)), Td(tDate)>> }

\* tables of at most MaxRows sample rows
RECURSIVE SeqsUpTo(_, _)
SeqsUpTo(S, n) ==
    IF n = 0 THEN {<<>>}
    ELSE SeqsUpTo(S, n - 1) \cup
         {Append(q, x) : q \in {p \in SeqsUpTo(S, n - 1) : Len(p) = n - 1}, x \in S}

\* one table of the known id holding sample rows: the inputs of the row loop
RowPages ==
    {Page(<<>>, <<Table(sGridView1, NoAttr, rows)>>) : rows \in SeqsUpTo(SampleRows, MaxRows)}

\* a table of n plain rows, with a heading row first when asked for
PlainRows(n, heading) ==
    [k \in 1..n |-> IF k = 1 /\ heading
                    THEN <<Th(tOther), Th(tHeading)>>
                    ELSE <<Td(tLoc), Td(tLevel)>>]

sClassGrid == <<"D", "a", "t", "a", "G", "r", "i", "d">>
sClassTable == <<"m", "y", "-", "T", "a", "b", "l", "e">>

\* tables that differ in what the locator looks at: a table showing none of
\* the four signs, the tables showing exactly one, and one showing all
AllLocatorTables ==
    {Table(id, cls, PlainRows(n, heading)) :
        id \in {NoAttr, sGridView1},
        cls \in {NoAttr, sClassGrid, sClassTable},
        n \in {RowThreshold - 1, RowThreshold + 1, RowThreshold + 2},
        heading \in BOOLEAN}
Signs(t) ==
    {"id" : x \in {1} \cap (IF t.id # NoAttr THEN {1} ELSE {})}
    \cup {"class" : x \in {1} \cap (IF t.cls # NoAttr THEN {1} ELSE {})}
    \cup {"text" : x \in {1} \cap (IF HasWaterLevelText(t) THEN {1} ELSE {})}
    \cup {"rows" : x \in {1} \cap (IF Len(TrsIn(t)) > RowThreshold THEN {1} ELSE {})}
LocatorTables ==
    {t \in AllLocatorTables :
        \/ Cardinality(Signs(t)) <= 1
        \/ Cardinality(Signs(t)) = 4 /\ t.cls = sClassGrid /\ Len(t.rows) = RowThreshold + 1}

MaxTables == 2
LocatorPages ==
    {Page(<<>>, tables) : tables \in SeqsUpTo(LocatorTables, MaxTables)}

(***************************************************************************)
(* Page source: the text a fetch returns and what BeautifulSoup makes of   *)
(* it                                                                      *)
(***************************************************************************)
RECURSIVE RenderTable(_)
RECURSIVE RenderRow(_)
RECURSIVE RenderCell(_)

RenderCell(c) ==
    <<"<">> \o (IF c.type = "td" THEN <<"t", "d">> ELSE <<"t", "h">>) \o <<">">>
    \o c.text
    \o Flatten([k \in 1..Len(c.tables) |-> RenderTable(c.tables[k])])
    \o <<"<", "/">> \o (IF c.type = "td" THEN <<"t", "d">> ELSE <<"t", "h">>) \o <<">">>

RenderRow(row) ==
    <<"<","t","r",">">> \o Flatten([c \in 1..Len(row) |-> RenderCell(row[c])]) \o <<"<","/","t","r",">">>

RenderTable(t) ==
    sTableTag
    \o (IF t.id # <<>> THEN <<" ","i","d","=","'">> \o t.id \o <<"'">> ELSE <<>>)
    \o (IF t.cls # <<>> THEN <<" ","c","l","a","s","s","=","'">> \o t.cls \o <<"'">> ELSE <<>>)
    \o <<">">>
    \o Flatten([r \in 1..Len(t.rows) |-> RenderRow(t.rows[r])])
    \o <<"<","/","t","a","b","l","e",">">>

\* the HTML text of a page
Render(page) ==
    page.body \o Flatten([k \in 1..Len(page.tables) |-> RenderTable(page.tables[k])])

tUnavailable == <<"W","a","t","e","r"," ","L","e","v","e","l"," ","u","n","a","v","a","i","l","a","b","l","e">>
tDenied == <<"A","c","c","e","s","s"," ","D","e","n","i","e","d">>

\* the row of the published page: the level sits in a nested table
PublishedRow == <<Td(tLoc), TdWith(<<>>, Nested(<<<<Td(tLevel)>>>>)), Td(tDate)>>
HeadingRow == <<Th(tOther), Th(tOther)>>

\* pages a fetch may bring back
SourcePages ==
    { Page(<<>>, <<Table(sGridView1, NoAttr, <<HeadingRow, PublishedRow>>)>>),
      Page(<<>>, <<Table(NoAttr, sClassTable, <<<<Td(tLocPadded), Td(tLevel)>>>>)>>),
      Page(<<>>, <<Table(NoAttr, NoAttr, <<HeadingRow>>)>>),
      Page(tUnavailable, <<>>),
      Page(tDenied, <<>>),
      Page(<<>>, <<>>) }

\* BeautifulSoup(text, 'html.parser'): the page the text is the source of
ParseHtml(text) ==
    IF \E p \in SourcePages : Render(p) = text
    THEN CHOOSE p \in SourcePages : Render(p) = text
    ELSE Page(text, <<>>)

(***************************************************************************)
(* State                                                                   *)
(***************************************************************************)
VARIABLES
    pc,                \* position of the running function
    now,               \* the wall clock, in seconds
    extractor,         \* the extractor that runs
    soup,              \* the parsed page
    table,             \* the located table, or None
    approach_used,     \* the approach that located it
    data_rows,         \* the rows kept as data rows
    i,                 \* index of the row loop
    data,              \* the records appended so far
    current_datetime,  \* the time captured before the row loop
    result,            \* the value returned
    script,            \* the script that runs
    SELENIUM_AVAILABLE, \* whether the Selenium imports succeeded
    GITHUB_ACTIONS,    \* os.environ.get('GITHUB_ACTIONS') == 'true'
    curl_results,      \* what curl gives at each endpoint of a list, when fixed beforehand
    row_faults,        \* indexes of the data rows whose processing raises
    attempt,           \* loop variable of scrape_water_level_data
    proxies,           \* the endpoints of the running strategy, in the order tried
    proxy_i,           \* index of the endpoint loop
    live_drivers,      \* WebDrivers created and not yet quit
    started,           \* strategies started in this attempt, with what each gave
    source,            \* the return statement that gave the result
    sleeps,            \* time.sleep calls made before a retry
    dirs,              \* directories of the file system
    files,             \* files of the file system: path -> content
    exit_status,       \* status the process ended with
    filename           \* what save_to_csv returned to main

extractVars == <<extractor, soup, table, approach_used, data_rows, i, data,
                 current_datetime>>
runVars == <<script, SELENIUM_AVAILABLE, GITHUB_ACTIONS, curl_results, row_faults,
             attempt, proxies, proxy_i,
             live_drivers, started, source, sleeps, dirs, files, exit_status, filename>>
vars == <<pc, now, result, extractVars, runVars>>

Unset == [type |-> "unset"]

\* extract_data_from_html and the copies of its code in the Selenium functions
Extractors ==
    {"extract_data_from_html", "scrape_with_selenium",
     "scrape_with_selenium_and_proxy", "selenium_variant", "requests_variant"}
TolerantExtractors == Extractors \ {"requests_variant"}
\* the functions that produce records
Producers == Extractors \cup {"generate_mock_data"}
EmptyPage == Page(<<>>, <<>>)

\* the table locator each extractor runs
Locate(e, page) ==
    CASE e = "extract_data_from_html" -> LocateTable(page, sTable)
      [] e \in {"scrape_with_selenium", "selenium_variant"} -> LocateTable(page, sGrid)
      [] e = "scrape_with_selenium_and_proxy" -> LocateTableIdClass(page)
      [] e = "requests_variant" -> LocateTableIdOnly(page)

\* what an extractor gives when it finds no table or no data row:
\* scrape_water_level.py returns [], the others return None or go on to the
\* next attempt with nothing
NoData(e) == IF e = "requests_variant" THEN PyList(<<>>) ELSE None

\* the rows the row loop walks
LoopRows(e, t) == IF e = "requests_variant" THEN RowsV1(t) ELSE DataRows(t)

\* datetime.now().strftime(...) before the row loop
CapturedTime == current_datetime

\* the records one iteration appends
RowRecords(e, row) ==
    IF e = "requests_variant" THEN ProcessRowV1(row)
    ELSE ProcessRow(row, CapturedTime)

InitExtract(pages, extractors, faults) ==
    /\ extractor \in extractors
    /\ pc = IF extractor = "generate_mock_data" THEN "mock" ELSE "locate"
    /\ now = 0
    /\ soup \in IF extractor = "generate_mock_data" THEN {EmptyPage} ELSE pages
    /\ table = None
    /\ approach_used = "none"
    /\ data_rows = <<>>
    /\ i = 0
    /\ data = <<>>
    /\ current_datetime = <<>>
    /\ result = Unset
    /\ script = "none"
    /\ SELENIUM_AVAILABLE = TRUE
    /\ GITHUB_ACTIONS = TRUE
    /\ curl_results = <<>>
    /\ row_faults \in faults
    /\ attempt = 0
    /\ proxies = <<>>
    /\ proxy_i = 0
    /\ live_drivers = 0
    /\ started = <<>>
    /\ source = "none"
    /\ sleeps = 0
    /\ dirs = {}
    /\ files = <<>>
    /\ exit_status = -1
    /\ filename = Unset

\* the approaches 1 to 4, until "if not table"
LocateStep ==
    /\ pc = "locate"
    /\ table' = Locate(extractor, soup).table
    /\ approach_used' = Locate(extractor, soup).approach_used
    /\ IF Truthy(Locate(extractor, soup).table)
       THEN pc' = "rows" /\ result' = result
       ELSE pc' = "done" /\ result' = NoData(extractor)
    /\ UNCHANGED <<now, extractor, soup, data_rows, i, data, current_datetime, runVars>>

\* from table.find_all('tr') to the capture of current_datetime
CollectRows ==
    /\ pc = "rows"
    /\ data_rows' = LoopRows(extractor, table)
    /\ IF LoopRows(extractor, table) = <<>>
       THEN /\ pc' = "done"
            /\ result' = NoData(extractor)
            /\ UNCHANGED <<i, current_datetime>>
       ELSE /\ pc' = "loop"
            /\ i' = 1
            /\ current_datetime' =
                 IF extractor = "requests_variant" THEN current_datetime
                 ELSE StrfYmdHms(now)
            /\ result' = result
    /\ UNCHANGED <<now, extractor, soup, table, approach_used, data, runVars>>

RowStepStopsAtFaultMutant ==
    /\ pc = "loop"
    /\ i <= Len(data_rows)
    /\ data' = IF i \in row_faults THEN data
               ELSE data \o RowRecords(extractor, data_rows[i])
    /\ i' = IF i \in row_faults THEN Len(data_rows) + 1 ELSE i + 1
    /\ UNCHANGED <<pc, now, result, extractor, soup, table, approach_used,
                   data_rows, current_datetime, runVars>>

\* one iteration of "for i, row in enumerate(data_rows)"; when the body
\* raises, "except Exception: continue" appends nothing
RowStep ==
    /\ pc = "loop"
    /\ i <= Len(data_rows)
    /\ data' = IF i \in row_faults THEN data
               ELSE data \o RowRecords(extractor, data_rows[i])
    /\ i' = i + 1
    /\ UNCHANGED <<pc, now, result, extractor, soup, table, approach_used,
                   data_rows, current_datetime, runVars>>

\* "return data" after the loop
ReturnData ==
    /\ pc = "loop"
    /\ i > Len(data_rows)
    /\ pc' = "done"
    /\ result' = PyList(data)
    /\ UNCHANGED <<now, extractVars, runVars>>

\* generate_mock_data(): the time is read once, then one record per location
MockStep ==
    /\ pc = "mock"
    /\ \E draws \in RandomDraws :
         /\ data' = GenerateMockData(now, draws)
         /\ result' = PyList(GenerateMockData(now, draws))
    /\ current_datetime' = StrfDmyHms(now)
    /\ pc' = "done"
    /\ UNCHANGED <<now, extractor, soup, table, approach_used, data_rows, i, runVars>>

\* the wall clock advances while the extractor runs
Tick ==
    /\ pc # "done"
    /\ now < MaxClock
    /\ now' = now + 1
    /\ UNCHANGED <<pc, result, extractVars, runVars>>

\* the row loop on tables of sample rows, every extractor, and the mock generator
InitRows == InitExtract(RowPages, Producers, {{}})
NextRows == LocateStep \/ CollectRows \/ RowStep \/ ReturnData \/ MockStep \/ Tick
SpecRows == InitRows /\ [][NextRows]_vars

\* the locator on pages of several tables
InitLocate ==
    InitExtract(LocatorPages, {"extract_data_from_html", "selenium_variant"}, {{}})
NextLocate == LocateStep \/ CollectRows \/ RowStep \/ ReturnData
SpecLocate == InitLocate /\ [][NextLocate]_vars

\* the row loop when the processing of some rows raises.  Nothing in the body
\* of the loop raises on a parsed page, so the rows that raise are chosen
\* from outside; the tables begin with two heading rows
FaultRows ==
    { <<Td(tLoc), Td(tLevel)>>,
      <<Td(tOther), TdWith(<<>>, Nested(<<<<Td(tLevel)>>>>)), Td(tDate)>>,
      <<Td(tLocPadded), TdWith(<<>>, Nested(<<<<Td(tLevelUnit)>>>>)), Td(tLevel)>>,
      <<Th(tOther), Th(tHeading), Th(tOther)>> }
FaultPages ==
    {Page(<<>>, <<Table(sGridView1, NoAttr, <<HeadingRow, HeadingRow>> \o rows)>>) :
        rows \in SeqsUpTo(FaultRows, MaxRows)}
InitRowFaults == InitExtract(FaultPages, Extractors, SUBSET (1..MaxRows))
SpecRowFaults == InitRowFaults /\ [][NextLocate]_vars

(***************************************************************************)
(* Whole runs of the three scripts                                         *)
(***************************************************************************)
\* default of the max_retries parameter; main passes no argument
max_retries == 2
\* entries of the list of get_indian_proxies
NumIndianProxies == 10

\* random.shuffle(indian_proxies): the orders the model considers
ShuffleOutcomes ==
    {[k \in 1..NumIndianProxies |-> ((k - 1 + r) % NumIndianProxies) + 1] :
        r \in 0..(MaxShuffles - 1)}

\* hosts of the lists of try_indian_web_proxy and try_proxy_service
indian_proxy_services == <<"hide.me", "www.hidester.com", "proxysite.com">>
proxy_services == <<"api.allorigins.win", "cors-anywhere.herokuapp.com", "api.codetabs.com">>

\* the strategies of scrape_water_level_data of v3 in the order of its code
StrategyOrder ==
    <<"selenium_proxy", "selenium", "indian_proxy", "indian_web_proxy", "proxy_service">>
CurlStrategies == {"indian_proxy", "indian_web_proxy", "proxy_service"}

\* the data of a fetched page: locator, data rows and row loop in one go, the
\* time being read once before the loop
ExtractAll(e, page, t) ==
    IF ~Truthy(Locate(e, page).table) THEN NoData(e)
    ELSE IF LoopRows(e, Locate(e, page).table) = <<>> THEN NoData(e)
    ELSE LET rows == LoopRows(e, Locate(e, page).table) IN
         PyList(Flatten([k \in 1..Len(rows) |->
                   IF e = "requests_variant" THEN ProcessRowV1(rows[k])
                   ELSE ProcessRow(rows[k], StrfYmdHms(t))]))

\* extract_data_from_html(content) called at time t
ExtractDataFromHtml(content, t) ==
    ExtractAll("extract_data_from_html", ParseHtml(content), t)

\* the text a page fetch may give
PageSources == {Render(p) : p \in SourcePages}

\* json.loads of the answer of api.allorigins.win, which wraps the page
JsonOpen == <<"{","\"","c","o","n","t","e","n","t","s","\"",":","\"">>
JsonClose == <<"\"","}">>
JsonNull == <<"{","\"","c","o","n","t","e","n","t","s","\"",":","n","u","l","l","}">>
JsonWrap(text) == JsonOpen \o text \o JsonClose
IsPrefix(a, b) == Len(a) <= Len(b) /\ SubSeq(b, 1, Len(a)) = a
IsSuffix(a, b) == Len(a) <= Len(b) /\ SubSeq(b, Len(b) - Len(a) + 1, Len(b)) = a
JsonLoads(text) ==
    IF text = JsonNull THEN [type |-> "dict", keys |-> {"contents"}, contents |-> None]
    ELSE IF IsPrefix(JsonOpen, text) /\ IsSuffix(JsonClose, text)
              /\ Len(text) >= Len(JsonOpen) + Len(JsonClose)
    THEN [type |-> "dict", keys |-> {"contents"},
          contents |-> PyStr(SubSeq(text, Len(JsonOpen) + 1, Len(text) - Len(JsonClose)))]
    ELSE [type |-> "error"]

\* what subprocess.run of curl may give for an endpoint
CurlOutcomes(strategy, url) ==
    {[kind |-> "nonzero", stdout |-> <<>>], [kind |-> "raised", stdout |-> <<>>]}
    \cup {[kind |-> "zero", stdout |-> text] : text \in PageSources}
    \cup (IF strategy = "proxy_service" /\ url = "api.allorigins.win"
          THEN {[kind |-> "zero", stdout |-> JsonWrap(text)] : text \in PageSources}
               \cup {[kind |-> "zero", stdout |-> JsonNull]}
          ELSE {})

\* "<table" in content.lower() or "water level" in content.lower()
LooksUseful(content) ==
    Contains(sTableTag, Lower(content)) \/ Contains(sWaterLevel, Lower(content))

\* the content after the unwrapping of try_proxy_service
Unwrapped(strategy, url, stdout) ==
    IF strategy = "proxy_service" /\ url = "api.allorigins.win"
          /\ JsonLoads(stdout).type = "dict"
    THEN JsonLoads(stdout).contents
    ELSE PyStr(stdout)

CurlIterationNoCheckMutant(strategy, url, outcome) ==
    IF outcome.kind # "zero" THEN None
    ELSE IF Unwrapped(strategy, url, outcome.stdout).type # "str" THEN None
    ELSE Unwrapped(strategy, url, outcome.stdout)

\* one iteration of the loop of a curl strategy: the content it returns, or
\* None when the loop goes on to the next endpoint
CurlIteration(strategy, url, outcome) ==
    IF outcome.kind # "zero" THEN None
    ELSE IF Unwrapped(strategy, url, outcome.stdout).type # "str" THEN None
    ELSE IF LooksUseful(Unwrapped(strategy, url, outcome.stdout).val)
    THEN Unwrapped(strategy, url, outcome.stdout)
    ELSE None

\* "water level" in page_source.lower() or "GridView1" in page_source
LooksValid(page_source) ==
    Contains(sWaterLevel, Lower(page_source)) \/ Contains(sGridView1, page_source)

\* what a browser session may give: the page source, or an exception
BrowserOutcomes ==
    {[kind |-> "raised", page_source |-> <<>>]}
    \cup {[kind |-> "page", page_source |-> text] : text \in PageSources}

sDebugPage == <<"d","a","t","a","/","d","e","b","u","g","_","p","a","g","e",".","h","t","m","l">>
OUTPUT_DIR == "data"

\* the debug copy of the page written outside GitHub Actions
WithDebugPage(fs, page_source) ==
    IF GITHUB_ACTIONS THEN fs ELSE (sDebugPage :> page_source) @@ fs
WithDebugDir(ds) == IF GITHUB_ACTIONS THEN ds ELSE ds \cup {OUTPUT_DIR}

Scripts == {"requests_variant", "selenium_variant", "v3"}

Init ==
    /\ script \in Scripts
    /\ pc = CASE script = "requests_variant" -> "v1_scrape"
              [] script = "selenium_variant" -> "sel_setup"
              [] script = "v3" -> "v3_sel_proxy"
    /\ SELENIUM_AVAILABLE \in (IF script = "v3" THEN BOOLEAN ELSE {TRUE})
    /\ GITHUB_ACTIONS \in (IF script = "requests_variant" THEN {TRUE} ELSE BOOLEAN)
    /\ curl_results = <<>>
    /\ row_faults = {}
    /\ now = 0
    /\ extractor = "none"
    /\ soup = EmptyPage
    /\ table = None
    /\ approach_used = "none"
    /\ data_rows = <<>>
    /\ i = 0
    /\ data = <<>>
    /\ current_datetime = <<>>
    /\ result = Unset
    /\ attempt = 0
    /\ proxies = <<>>
    /\ proxy_i = 0
    /\ live_drivers = 0
    /\ started = <<>>
    /\ source = "none"
    /\ sleeps = 0
    /\ dirs = {}
    /\ files = <<>>
    /\ exit_status = -1
    /\ filename = Unset

Running(name) == [name |-> name, gave |-> "running"]
\* the strategy started last has ended with this outcome
Ended(gave) == [started EXCEPT ![Len(started)].gave = gave]

\* "return data" of scrape_water_level_data: control goes back to main
Return(value, from) ==
    /\ result' = value
    /\ source' = from
    /\ pc' = "main"

AfterQuitLeakMutant(n) == n
\* driver.quit(), called on every path that leaves the code between the
\* creation of a driver and the next iteration or return
AfterQuit(n) == n - 1

envVars == <<script, SELENIUM_AVAILABLE, GITHUB_ACTIONS, curl_results, row_faults>>

(***************************************************************************)
(* scrape_water_level_v3.py: scrape_water_level_data                       *)
(***************************************************************************)
\* "if SELENIUM_AVAILABLE: data = scrape_with_selenium_and_proxy()" up to the
\* proxy loop
V3SelProxyCall ==
    /\ pc = "v3_sel_proxy"
    /\ IF SELENIUM_AVAILABLE
       THEN /\ \E order \in ShuffleOutcomes : proxies' = order
            /\ proxy_i' = 1
            /\ started' = Append(started, Running("selenium_proxy"))
            /\ pc' = "v3_sel_proxy_setup"
       ELSE /\ pc' = "v3_selenium"
            /\ UNCHANGED <<proxies, proxy_i, started>>
    /\ UNCHANGED <<now, result, extractVars, envVars, attempt, live_drivers, source,
                   sleeps, dirs, files, exit_status,
                   filename>>

\* driver = setup_driver_with_proxy(proxy); "if not driver: continue"
V3SelProxySetup ==
    /\ pc = "v3_sel_proxy_setup"
    /\ proxy_i <= Len(proxies)
    /\ \E ok \in BOOLEAN :
         IF ok
         THEN /\ live_drivers' = live_drivers + 1
              /\ pc' = "v3_sel_proxy_page"
              /\ proxy_i' = proxy_i
         ELSE /\ proxy_i' = proxy_i + 1
              /\ UNCHANGED <<live_drivers, pc>>
    /\ UNCHANGED <<now, result, extractVars, envVars, attempt, proxies, started, source,
                   sleeps, dirs, files, exit_status,
                   filename>>

\* the rest of one iteration of the proxy loop, and what scrape_water_level_data
\* does with the data when the function returns it
V3SelProxyPage ==
    /\ pc = "v3_sel_proxy_page"
    /\ \E o \in BrowserOutcomes :
         LET d == IF o.kind = "page" /\ LooksValid(o.page_source)
                  THEN ExtractAll("scrape_with_selenium_and_proxy",
                                  ParseHtml(o.page_source), now)
                  ELSE None
         IN  IF d.type = "list"
             THEN IF Truthy(d)
                  THEN /\ started' = Ended("data")
                       /\ Return(d, "selenium_proxy")
                       /\ proxy_i' = proxy_i
                  ELSE /\ started' = Ended("nothing")
                       /\ pc' = "v3_selenium"
                       /\ UNCHANGED <<result, source, proxy_i>>
             ELSE /\ proxy_i' = proxy_i + 1
                  /\ pc' = "v3_sel_proxy_setup"
                  /\ UNCHANGED <<result, source, started>>
    /\ live_drivers' = AfterQuit(live_drivers)
    /\ UNCHANGED <<now, extractVars, envVars, attempt, proxies, sleeps, dirs, files,
                   exit_status,
                   filename>>

V3SelProxyExhaustedAbortsMutant ==
    /\ pc = "v3_sel_proxy_setup"
    /\ proxy_i > Len(proxies)
    /\ started' = Ended("nothing")
    /\ pc' = "v3_failed"
    /\ UNCHANGED <<now, result, extractVars, envVars, attempt, proxies, proxy_i,
                   live_drivers, source, sleeps, dirs, files, exit_status, filename>>

\* "All Selenium with proxy attempts failed": return None
V3SelProxyExhausted ==
    /\ pc = "v3_sel_proxy_setup"
    /\ proxy_i > Len(proxies)
    /\ started' = Ended("nothing")
    /\ pc' = "v3_selenium"
    /\ UNCHANGED <<now, result, extractVars, envVars, attempt, proxies, proxy_i,
                   live_drivers, source, sleeps, dirs, files, exit_status,
                   filename>>

\* "if SELENIUM_AVAILABLE: data = scrape_with_selenium()" up to setup_driver
V3SeleniumCall ==
    /\ pc = "v3_selenium"
    /\ IF SELENIUM_AVAILABLE
       THEN \E ok \in BOOLEAN :
              IF ok
              THEN /\ started' = Append(started, Running("selenium"))
                   /\ live_drivers' = live_drivers + 1
                   /\ pc' = "v3_selenium_page"
              ELSE /\ started' = Append(started, [name |-> "selenium", gave |-> "nothing"])
                   /\ pc' = "v3_indian"
                   /\ UNCHANGED live_drivers
       ELSE /\ pc' = "v3_indian"
            /\ UNCHANGED <<started, live_drivers>>
    /\ UNCHANGED <<now, result, extractVars, envVars, attempt, proxies, proxy_i, source,
                   sleeps, dirs, files, exit_status,
                   filename>>

\* scrape_with_selenium from driver.get to its return, and the "if data"
V3SeleniumPage ==
    /\ pc = "v3_selenium_page"
    /\ \E o \in BrowserOutcomes :
         IF o.kind = "raised"
         THEN /\ started' = Ended("nothing")
              /\ pc' = "v3_indian"
              /\ UNCHANGED <<result, source, dirs, files>>
         ELSE LET d == ExtractAll("scrape_with_selenium", ParseHtml(o.page_source), now)
              IN  /\ files' = WithDebugPage(files, o.page_source)
                  /\ dirs' = WithDebugDir(dirs)
                  /\ IF Truthy(d)
                     THEN started' = Ended("data") /\ Return(d, "selenium")
                     ELSE /\ started' = Ended("nothing")
                          /\ pc' = "v3_indian"
                          /\ UNCHANGED <<result, source>>
    /\ live_drivers' = AfterQuit(live_drivers)
    /\ UNCHANGED <<now, extractVars, envVars, attempt, proxies, proxy_i, sleeps,
                   exit_status,
                   filename>>

AfterPcSwappedMutant ==
    [indian_proxy |-> "v3_service", proxy_service |-> "v3_web",
     indian_web_proxy |-> "v3_failed"]
CallPc == [indian_proxy |-> "v3_indian", indian_web_proxy |-> "v3_web",
           proxy_service |-> "v3_service"]
LoopPc == [indian_proxy |-> "v3_indian_loop", indian_web_proxy |-> "v3_web_loop",
           proxy_service |-> "v3_service_loop"]
AfterPc == [indian_proxy |-> "v3_web", indian_web_proxy |-> "v3_service",
            proxy_service |-> "v3_failed"]

\* the endpoint lists of the curl strategies
Endpoints(strategy) ==
    CASE strategy = "indian_proxy" -> ShuffleOutcomes
      [] strategy = "indian_web_proxy" -> {indian_proxy_services}
      [] strategy = "proxy_service" -> {proxy_services}

\* content = try_with_indian_proxy() and its like, up to the endpoint loop
V3CurlCall(strategy) ==
    /\ pc = CallPc[strategy]
    /\ \E list \in Endpoints(strategy) : proxies' = list
    /\ proxy_i' = 1
    /\ started' = Append(started, Running(strategy))
    /\ pc' = LoopPc[strategy]
    /\ UNCHANGED <<now, result, extractVars, envVars, attempt, live_drivers, source,
                   sleeps, dirs, files, exit_status,
                   filename>>

V3CurlTryReturnsAnywayMutant(strategy) ==
    /\ pc = LoopPc[strategy]
    /\ proxy_i <= Len(proxies)
    /\ \E o \in CurlOutcomes(strategy, proxies[proxy_i]) :
         LET content == CurlIteration(strategy, proxies[proxy_i], o) IN
         IF content.type = "str"
         THEN /\ started' = Ended("data")
              /\ Return(ExtractDataFromHtml(content.val, now), strategy)
              /\ proxy_i' = proxy_i
         ELSE /\ proxy_i' = proxy_i + 1
              /\ UNCHANGED <<pc, result, source, started>>
    /\ UNCHANGED <<now, extractVars, envVars, attempt, proxies, live_drivers, sleeps,
                   dirs, files, exit_status, filename>>

\* one iteration of the endpoint loop; when it returns content, the
\* "if content: data = extract_data_from_html(content); if data: return data"
V3CurlTry(strategy) ==
    /\ pc = LoopPc[strategy]
    /\ proxy_i <= Len(proxies)
    /\ \E o \in CurlOutcomes(strategy, proxies[proxy_i]) :
         LET content == CurlIteration(strategy, proxies[proxy_i], o) IN
         IF content.type = "str"
         THEN IF Truthy(content) /\ Truthy(ExtractDataFromHtml(content.val, now))
              THEN /\ started' = Ended("data")
                   /\ Return(ExtractDataFromHtml(content.val, now), strategy)
                   /\ proxy_i' = proxy_i
              ELSE /\ started' = Ended("nothing")
                   /\ pc' = AfterPc[strategy]
                   /\ UNCHANGED <<result, source, proxy_i>>
         ELSE /\ proxy_i' = proxy_i + 1
              /\ UNCHANGED <<pc, result, source, started>>
    /\ UNCHANGED <<now, extractVars, envVars, attempt, proxies, live_drivers, sleeps,
                   dirs, files, exit_status,
                   filename>>

\* the endpoint loop ends: return None
V3CurlExhausted(strategy) ==
    /\ pc = LoopPc[strategy]
    /\ proxy_i > Len(proxies)
    /\ started' = Ended("nothing")
    /\ pc' = AfterPc[strategy]
    /\ UNCHANGED <<now, result, extractVars, envVars, attempt, proxies, proxy_i,
                   live_drivers, source, sleeps, dirs, files, exit_status,
                   filename>>

\* "All methods failed in this attempt": the for loop takes its next value, or
\* ends.  No strategy lets an exception out, so the except clause of the loop
\* body, the only place that sleeps, has no step here.
V3AttemptFailed ==
    /\ pc = "v3_failed"
    /\ attempt' = attempt + 1
    /\ started' = <<>>
    /\ pc' = IF attempt < max_retries THEN "v3_sel_proxy" ELSE "v3_mock"
    /\ UNCHANGED <<now, result, extractVars, envVars, proxies, proxy_i, live_drivers,
                   source, sleeps, dirs, files, exit_status,
                   filename>>

\* "return generate_mock_data()"
V3Mock ==
    /\ pc = "v3_mock"
    /\ \E draws \in RandomDraws : Return(PyList(GenerateMockData(now, draws)), "mock")
    /\ UNCHANGED <<now, extractVars, envVars, attempt, proxies, proxy_i, live_drivers,
                   started, sleeps, dirs, files, exit_status,
                   filename>>

(***************************************************************************)
(* scrape_water_level_selenium.py: scrape_water_level_data                 *)
(***************************************************************************)
SelContinueGivesUpMutant ==
    /\ attempt' = attempt + 1
    /\ pc' = "sel_failed"
\* "continue": the for loop takes its next value, or ends
SelContinue ==
    /\ attempt' = attempt + 1
    /\ pc' = IF attempt < max_retries THEN "sel_setup" ELSE "sel_failed"

SelSleepAlwaysMutant == sleeps + 1
\* the except clauses: "if attempt < max_retries: time.sleep(5)"
SelSleepOnError == IF attempt < max_retries THEN sleeps + 1 ELSE sleeps

\* driver = None; driver = setup_driver(), which may raise
SelSetup ==
    /\ pc = "sel_setup"
    /\ \E ok \in BOOLEAN :
         IF ok
         THEN /\ live_drivers' = live_drivers + 1
              /\ pc' = "sel_page"
              /\ UNCHANGED <<attempt, sleeps>>
         ELSE /\ sleeps' = SelSleepOnError
              /\ SelContinue
              /\ UNCHANGED live_drivers
    /\ UNCHANGED <<now, result, extractVars, envVars, proxies, proxy_i, started, source,
                   dirs, files, exit_status,
                   filename>>

\* from driver.get to the end of the loop body
SelPage ==
    /\ pc = "sel_page"
    /\ \E o \in BrowserOutcomes :
         IF o.kind = "raised"
         THEN /\ sleeps' = SelSleepOnError
              /\ SelContinue
              /\ UNCHANGED <<result, source, dirs, files>>
         ELSE LET d == ExtractAll("selenium_variant", ParseHtml(o.page_source), now)
              IN  /\ files' = WithDebugPage(files, o.page_source)
                  /\ dirs' = WithDebugDir(dirs)
                  /\ IF d.type = "list"
                     THEN Return(d, "selenium_variant") /\ UNCHANGED <<attempt, sleeps>>
                     ELSE SelContinue /\ UNCHANGED <<result, source, sleeps>>
    /\ live_drivers' = AfterQuit(live_drivers)
    /\ UNCHANGED <<now, extractVars, envVars, proxies, proxy_i, started, exit_status,
                   filename>>

SelAllFailedMockMutant ==
    /\ pc = "sel_failed"
    /\ \E draws \in RandomDraws : Return(PyList(GenerateMockData(now, draws)), "mock")
    /\ UNCHANGED <<now, extractVars, envVars, attempt, proxies, proxy_i, live_drivers,
                   started, sleeps, dirs, files, exit_status,
                   filename>>

\* "All attempts failed": return []
SelAllFailed ==
    /\ pc = "sel_failed"
    /\ Return(PyList(<<>>), "all_failed")
    /\ UNCHANGED <<now, extractVars, envVars, attempt, proxies, proxy_i, live_drivers,
                   started, sleeps, dirs, files, exit_status,
                   filename>>

(***************************************************************************)
(* scrape_water_level.py: scrape_water_level_data                          *)
(***************************************************************************)
\* requests.get, raise_for_status and the extraction; [] on any exception
V1Scrape ==
    /\ pc = "v1_scrape"
    /\ \E o \in BrowserOutcomes :
         IF o.kind = "raised"
         THEN Return(PyList(<<>>), "error")
         ELSE Return(ExtractAll("requests_variant", ParseHtml(o.page_source), now),
                     "requests_variant")
    /\ UNCHANGED <<now, extractVars, envVars, attempt, proxies, proxy_i, live_drivers,
                   started, sleeps, dirs, files, exit_status,
                   filename>>

(***************************************************************************)
(* main and save_to_csv, the same in the three scripts                     *)
(***************************************************************************)
CsvPathWithTimeMutant(t) ==
    <<"d","a","t","a","/","w","a","t","e","r","_","l","e","v","e","l","_","d","a","t","a","_">>
    \o StrfYmdHms(t) \o <<".","c","s","v">>
\* os.path.join(OUTPUT_DIR, f"water_level_data_{today}.csv")
CsvPath(t) ==
    <<"d","a","t","a","/","w","a","t","e","r","_","l","e","v","e","l","_","d","a","t","a","_">>
    \o StrfYmd(t) \o <<".","c","s","v">>

MainAlwaysSavesMutant ==
    /\ pc = "main"
    /\ pc' = "save"
    /\ UNCHANGED <<now, result, extractVars, envVars, attempt, proxies, proxy_i,
                   live_drivers, started, source, sleeps, dirs, files, exit_status,
                   filename>>

\* "if not data: sys.exit(1)"
Main ==
    /\ pc = "main"
    /\ IF Truthy(result)
       THEN pc' = "save" /\ UNCHANGED exit_status
       ELSE pc' = "exit" /\ exit_status' = 1
    /\ UNCHANGED <<now, result, extractVars, envVars, attempt, proxies, proxy_i,
                   live_drivers, started, source, sleeps, dirs, files, filename>>

\* DataFrame(data).to_csv(file_path, index=False): the header line and one
\* line for each record
ToCsv(records) ==
    << <<"Location", "Water Level (Feet)", "Date & Time">> >>
    \o [k \in 1..Len(records) |->
          <<records[k]["Location"].val, records[k]["Water Level (Feet)"].val,
            records[k]["Date & Time"].val>>]

\* what the file system may do to save_to_csv: os.makedirs raises, the try
\* block raises, or the file is written
SaveOutcomes == {"makedirs_raised", "write_raised", "written"}
\* an exception leaves the function, raised by the call named
Raised(call) == [type |-> "raised", by |-> call]

SaveToCsvWriteRaisesMutant(d, t, outcome, fs, ds) ==
    IF outcome = "written" /\ Truthy(d)
    THEN [files |-> (CsvPath(t) :> ToCsv(d.val)) @@ fs,
          dirs |-> ds \cup {OUTPUT_DIR},
          ret |-> PyStr(CsvPath(t))]
    ELSE [files |-> fs, dirs |-> ds, ret |-> Raised("to_csv")]
\* save_to_csv(d) called at time t on the files fs and directories ds: the
\* file system it leaves and what it returns
SaveToCsvEffect(d, t, outcome, fs, ds) ==
    IF ~Truthy(d) THEN [files |-> fs, dirs |-> ds, ret |-> None]
    ELSE IF outcome = "makedirs_raised"
    THEN [files |-> fs, dirs |-> ds, ret |-> Raised("os.makedirs")]
    ELSE IF outcome = "write_raised"
    THEN [files |-> fs, dirs |-> ds \cup {OUTPUT_DIR}, ret |-> None]
    ELSE [files |-> (CsvPath(t) :> ToCsv(d.val)) @@ fs,
          dirs |-> ds \cup {OUTPUT_DIR},
          ret |-> PyStr(CsvPath(t))]

\* "filename = save_to_csv(data); if not filename: sys.exit(1)" and the end of
\* main
SaveToCsv ==
    /\ pc = "save"
    /\ \E outcome \in SaveOutcomes :
         LET e == SaveToCsvEffect(result, now, outcome, files, dirs) IN
         /\ files' = e.files
         /\ dirs' = e.dirs
         /\ filename' = e.ret
         /\ IF e.ret.type = "raised"
            THEN \* nobody catches it: the interpreter ends with status 1
                 pc' = "crashed" /\ exit_status' = 1
            ELSE /\ pc' = "exit"
                 /\ exit_status' = IF Truthy(e.ret) THEN 0 ELSE 1
    /\ UNCHANGED <<now, result, extractVars, envVars, attempt, proxies, proxy_i,
                   live_drivers, started, source, sleeps>>

\* the wall clock advances while a script runs
RunTick ==
    /\ pc \notin {"exit", "crashed"}
    /\ now < MaxClock
    /\ now' = now + 1
    /\ UNCHANGED <<pc, result, extractVars, runVars>>

\* the steps of the scripts
RunSteps ==
    \/ V3SelProxyCall \/ V3SelProxySetup \/ V3SelProxyPage \/ V3SelProxyExhausted
    \/ V3SeleniumCall \/ V3SeleniumPage
    \/ \E strategy \in CurlStrategies :
          V3CurlCall(strategy) \/ V3CurlTry(strategy) \/ V3CurlExhausted(strategy)
    \/ V3AttemptFailed \/ V3Mock
    \/ SelSetup \/ SelPage \/ SelAllFailed
    \/ V1Scrape
    \/ Main \/ SaveToCsv

Next == RunSteps \/ RunTick

Spec == Init /\ [][Next]_vars

\* the interpreter runs the script without pause: a step that can be taken is
\* taken (every external call returns)
LiveSpec == Init /\ [][Next]_vars /\ WF_vars(RunSteps)

(***************************************************************************)
(* save_to_csv called again and again on one file system                   *)
(***************************************************************************)
\* the data arguments given to save_to_csv
SaveInputs ==
    {None, PyList(<<>>),
     PyList(<<Record(PyStr(tLoc), PyStr(tLevel), PyStr(tDate))>>),
     PyList(<<Record(PyStr(tLoc), PyStr(tOther), PyStr(tDate)),
              Record(PyStr(tOther), PyStr(tLevel), PyStr(tDate))>>),
     PyList(<<Record(PyStr(tOther), PyStr(tOther), PyStr(tDate))>>)}

InitSave ==
    /\ pc = "save_to_csv"
    /\ now = 0
    /\ extractor = "none"
    /\ soup = EmptyPage
    /\ table = None
    /\ approach_used = "none"
    /\ data_rows = <<>>
    /\ i = 0
    /\ data = <<>>
    /\ current_datetime = <<>>
    /\ result = Unset
    /\ script = "none"
    /\ SELENIUM_AVAILABLE = TRUE
    /\ GITHUB_ACTIONS = TRUE
    /\ curl_results = <<>>
    /\ row_faults = {}
    /\ attempt = 0
    /\ proxies = <<>>
    /\ proxy_i = 0
    /\ live_drivers = 0
    /\ started = <<>>
    /\ source = "none"
    /\ sleeps = 0
    /\ dirs = {}
    /\ files = <<>>
    /\ exit_status = -1
    /\ filename = Unset

\* one call save_to_csv(d): result is the argument, filename what it returned
SaveCall ==
    /\ pc = "save_to_csv"
    /\ \E d \in SaveInputs, outcome \in SaveOutcomes :
         LET e == SaveToCsvEffect(d, now, outcome, files, dirs) IN
         /\ result' = d
         /\ files' = e.files
         /\ dirs' = e.dirs
         /\ filename' = e.ret
    /\ UNCHANGED <<pc, now, extractVars, envVars, attempt, proxies, proxy_i,
                   live_drivers, started, source, sleeps, exit_status>>

NextSave == SaveCall \/ RunTick
SpecSave == InitSave /\ [][NextSave]_vars

(***************************************************************************)
(* One call of a curl strategy, what curl gives at each endpoint being     *)
(* fixed when the call begins                                              *)
(***************************************************************************)
\* the results of curl along a list of three endpoints
ShortRuns(strategy, list) ==
    {<<a, b, c>> : a \in CurlOutcomes(strategy, list[1]),
                   b \in CurlOutcomes(strategy, list[2]),
                   c \in CurlOutcomes(strategy, list[3])}

\* the results of curl along the list of Indian proxies: the endpoint at
\* position hit and those after it give the text page, the ones before it
\* fail in turn by exit status, by exception and by a page of no use
LongRuns(list) ==
    {[k \in 1..Len(list) |->
        IF k >= hit THEN [kind |-> "zero", stdout |-> text]
        ELSE CASE (k + r) % 3 = 0 -> [kind |-> "nonzero", stdout |-> <<>>]
               [] (k + r) % 3 = 1 -> [kind |-> "raised", stdout |-> <<>>]
               [] OTHER -> [kind |-> "zero", stdout |-> tDenied]] :
        hit \in 1..Len(list), r \in 0..2, text \in PageSources}

CurlRuns(strategy, list) ==
    IF strategy = "indian_proxy" THEN LongRuns(list) ELSE ShortRuns(strategy, list)

InitCurl ==
    /\ pc = "curl_loop"
    /\ \E strategy \in CurlStrategies :
         /\ started = <<Running(strategy)>>
         /\ proxies \in Endpoints(strategy)
         /\ curl_results \in CurlRuns(strategy, proxies)
    /\ row_faults = {}
    /\ proxy_i = 1
    /\ now = 0
    /\ extractor = "none"
    /\ soup = EmptyPage
    /\ table = None
    /\ approach_used = "none"
    /\ data_rows = <<>>
    /\ i = 0
    /\ data = <<>>
    /\ current_datetime = <<>>
    /\ result = Unset
    /\ script = "none"
    /\ SELENIUM_AVAILABLE = TRUE
    /\ GITHUB_ACTIONS = TRUE
    /\ attempt = 0
    /\ live_drivers = 0
    /\ source = "none"
    /\ sleeps = 0
    /\ dirs = {}
    /\ files = <<>>
    /\ exit_status = -1
    /\ filename = Unset

\* one iteration of the endpoint loop of the strategy that runs
CurlLoopStep ==
    /\ pc = "curl_loop"
    /\ proxy_i <= Len(proxies)
    /\ LET content == CurlIteration(started[1].name, proxies[proxy_i],
                                    curl_results[proxy_i])
       IN  IF content.type = "str"
           THEN /\ result' = content
                /\ pc' = "done"
                /\ proxy_i' = proxy_i
           ELSE /\ proxy_i' = proxy_i + 1
                /\ UNCHANGED <<result, pc>>
    /\ UNCHANGED <<now, extractVars, envVars, attempt, proxies, live_drivers, started,
                   source, sleeps, dirs, files, exit_status, filename>>

\* the loop ends: return None
CurlLoopEnd ==
    /\ pc = "curl_loop"
    /\ proxy_i > Len(proxies)
    /\ result' = None
    /\ pc' = "done"
    /\ UNCHANGED <<now, extractVars, envVars, attempt, proxies, proxy_i, live_drivers,
                   started, source, sleeps, dirs, files, exit_status, filename>>

NextCurl == CurlLoopStep \/ CurlLoopEnd
SpecCurl == InitCurl /\ [][NextCurl]_vars

(***************************************************************************)
(* Properties of the whole runs                                            *)
(***************************************************************************)
\* main has the result of scrape_water_level_data
Returned == pc \in {"main", "save", "exit", "crashed"}

\* the strategies scrape_water_level_data can call in this run
AvailableOrder ==
    IF SELENIUM_AVAILABLE THEN StrategyOrder ELSE SubSeq(StrategyOrder, 3, 5)

\* the strategies started in the current attempt are the first ones of the
\* priority order, all but the last produced no data, and when the last one
\* produced data that data is what the function returned
C1_StartedInOrder ==
    script = "v3" =>
      /\ Len(started) <= Len(AvailableOrder)
      /\ \A k \in 1..Len(started) : started[k].name = AvailableOrder[k]
      /\ \A k \in 1..(Len(started) - 1) : started[k].gave = "nothing"
      /\ (started # <<>> /\ started[Len(started)].gave = "data") =>
            /\ Returned
            /\ Truthy(result)
            /\ source = started[Len(started)].name
      /\ (Returned /\ source # "mock") =>
            /\ started # <<>>
            /\ started[Len(started)] = [name |-> source, gave |-> "data"]

\* once a strategy has produced data no strategy and no attempt is started
C1_NothingAfterData ==
    [][(script = "v3" /\ Returned) =>
          /\ started' = started
          /\ attempt' = attempt
          /\ result' = result
          /\ source' = source]_vars

\* C1: in scrape_water_level_data of scrape_water_level_v3.py the strategies of
\* one attempt are tried in the fixed priority order (Selenium through a proxy,
\* Selenium direct, curl through the Indian proxies, Indian web proxy, relay
\* proxy service), each one only after every earlier one produced no data, and
\* the first non-empty record list is returned with no later strategy or
\* attempt started.
C1_StrategyPriority == []C1_StartedInOrder /\ C1_NothingAfterData

\* the last strategy of the order produced data after the four before it
\* produced none
C1_Witness ==
    /\ script = "v3"
    /\ Len(started) = Len(StrategyOrder)
    /\ started[Len(StrategyOrder)].gave = "data"
    /\ pc = "exit"

\* C2: scrape_water_level_data of scrape_water_level_v3.py returns the mock
\* records exactly when all max_retries + 1 attempts have run without any
\* strategy producing a non-empty record list; otherwise it returns extracted
\* records; its result is always a non-empty list, so main never takes its
\* "no data" exit.
C2_MockExactlyWhenAllFailed ==
    (script = "v3" /\ Returned) =>
      /\ result.type = "list"
      /\ Truthy(result)
      /\ (source = "mock") <=> (attempt = max_retries + 1)
      /\ (source # "mock") =>
            /\ attempt <= max_retries
            /\ source \in {StrategyOrder[k] : k \in 1..Len(StrategyOrder)}
      /\ (source = "mock") => started = <<>>

\* all three attempts failed and the run ended with the mock records
C2_Witness ==
    /\ script = "v3"
    /\ pc = "exit"
    /\ source = "mock"
    /\ attempt = max_retries + 1

\* the CSV file of some day has been written with at least one record
CsvWritten ==
    \E p \in DOMAIN files : p # sDebugPage /\ files[p] # <<>>

\* C3 as stated: in each of the three scripts a run in which every real
\* acquisition strategy fails ends with mock records and a non-empty output
\* file.
C3_EveryVariantEndsWithMock ==
    (pc = "exit" /\ (source \in {"mock", "all_failed", "error"} \/ ~Truthy(result))) =>
        /\ source = "mock"
        /\ Truthy(result)

\* C3: only scrape_water_level_v3.py falls back to mock records: when all its
\* attempts fail it returns them and, unless writing the file fails, the run
\* ends with a non-empty output file.  scrape_water_level.py and
\* scrape_water_level_selenium.py return an empty list when they fail, and
\* main then exits with status 1 without writing an output file.
C3_OnlyV3EndsWithMock ==
    pc = "exit" =>
      /\ (script = "v3" /\ attempt = max_retries + 1) =>
            /\ source = "mock"
            /\ Truthy(result)
            /\ exit_status = 0 => CsvWritten
      /\ script # "v3" =>
            /\ source # "mock"
            /\ ~Truthy(result) => (exit_status = 1 /\ ~CsvWritten)

\* a run of scrape_water_level_v3.py that failed three times wrote the mock
\* records to the file
C3_Witness ==
    /\ pc = "exit"
    /\ script = "v3"
    /\ source = "mock"
    /\ exit_status = 0
    /\ CsvWritten

\* the smaller of two numbers
Min(a, b) == IF a < b THEN a ELSE b

\* C4: in scrape_water_level_v3.py and scrape_water_level_selenium.py attempt
\* k+1 of scrape_water_level_data begins only after the pipeline has slept
\* after attempt k failed, whatever the reason of the failure.
C4_SleepBetweenAttempts ==
    script \in {"v3", "selenium_variant"} => sleeps >= Min(attempt, max_retries)

(***************************************************************************)
(* Properties of the table locator                                         *)
(***************************************************************************)
\* the word the running extractor looks for in class names
ClassWord == IF extractor = "extract_data_from_html" THEN sTable ELSE sGrid

\* index of the first table of the page, in document order, that passes a test
FirstIndex(Test(_)) ==
    LET T == FindAllTables(soup) IN
    IF \E k \in 1..Len(T) : Test(T[k])
    THEN CHOOSE k \in 1..Len(T) : Test(T[k]) /\ \A j \in 1..(k - 1) : ~Test(T[j])
    ELSE 0

IdSign(t) == t.id = sGridView1
ClassSign(t) == t.cls # <<>> /\ Contains(ClassWord, Lower(t.cls))
TextSign(t) == \E k \in 1..Len(TextNodesIn(t)) : Contains(sWaterLevel, Lower(TextNodesIn(t)[k]))
RowCount(t) == Len(TrsIn(t))
ManyRowsSign(t) == RowCount(t) > RowThreshold

Located == pc # "locate"

\* C5: the locator takes the table with id 'GridView1' when there is one,
\* otherwise the first table whose class matches, otherwise the first table
\* holding a 'water level' text, otherwise what the row-count approach gives;
\* a lower approach decides only when every higher one found nothing, and
\* when all four find nothing there is no table and no record
C5_LocatorPriority ==
    Located =>
      LET T == FindAllTables(soup) IN
      /\ FirstIndex(IdSign) # 0 =>
            table = T[FirstIndex(IdSign)] /\ approach_used = "id"
      /\ (FirstIndex(IdSign) = 0 /\ FirstIndex(ClassSign) # 0) =>
            table = T[FirstIndex(ClassSign)] /\ approach_used = "class"
      /\ (FirstIndex(IdSign) = 0 /\ FirstIndex(ClassSign) = 0
            /\ FirstIndex(TextSign) # 0) =>
            table = T[FirstIndex(TextSign)] /\ approach_used = "text"
      /\ (FirstIndex(IdSign) = 0 /\ FirstIndex(ClassSign) = 0
            /\ FirstIndex(TextSign) = 0) => approach_used \in {"rows", "none"}
      /\ approach_used = "rows" =>
            /\ FirstIndex(IdSign) = 0 /\ FirstIndex(ClassSign) = 0
            /\ FirstIndex(TextSign) = 0
            /\ \E k \in 1..Len(T) : table = T[k]
      /\ approach_used = "none" =>
            /\ table = None /\ data = <<>>
            /\ pc = "done" /\ result = None

\* a table holding the text is taken although an earlier table of the page
\* has enough rows for the fourth approach
C5_Witness ==
    /\ pc = "done"
    /\ approach_used = "text"
    /\ Len(FindAllTables(soup)) = 2
    /\ table = FindAllTables(soup)[2]
    /\ ManyRowsSign(FindAllTables(soup)[1])
    /\ result.type = "list" /\ result.val # <<>>

\* C6 as stated: the table the last fallback returns has at least as many
\* rows as every other table of the page
C6_LargestTable ==
    (Located /\ approach_used = "rows") =>
        \A k \in 1..Len(FindAllTables(soup)) :
            RowCount(FindAllTables(soup)[k]) <= RowCount(table)

\* C6 amended: the last fallback returns the first table in document order
\* that has more than RowThreshold rows, and no table when there is none
C6_FirstTableOverThreshold ==
    (Located /\ FirstIndex(IdSign) = 0 /\ FirstIndex(ClassSign) = 0
        /\ FirstIndex(TextSign) = 0) =>
        IF FirstIndex(ManyRowsSign) # 0
        THEN table = FindAllTables(soup)[FirstIndex(ManyRowsSign)]
             /\ approach_used = "rows"
        ELSE table = None

\* the fourth approach returns a table although a later one has more rows
C6_Witness ==
    /\ pc = "done"
    /\ approach_used = "rows"
    /\ \E k \in 1..Len(FindAllTables(soup)) :
          RowCount(FindAllTables(soup)[k]) > RowCount(table)

(***************************************************************************)
(* Properties of the records                                               *)
(***************************************************************************)
FieldNames == {"Location", "Water Level (Feet)", "Date & Time"}

\* the td cells that are children of the row itself, in order
OwnCells(row) == SelectSeq(row, LAMBDA c : c.type = "td")

\* in the tolerant extractors every data row appends one record, so record k
\* comes from data row k
RowOf(k) == data_rows[k]

\* C7: every record, extracted or mock, has exactly the three fields
\* 'Location', 'Water Level (Feet)' and 'Date & Time', each a str
C7_RecordShape ==
    /\ \A k \in 1..Len(data) :
          /\ DOMAIN data[k] = FieldNames
          /\ \A f \in FieldNames : data[k][f].type = "str"
    /\ (pc = "done" /\ result.type = "list") => result.val = data

\* the mock generator has returned its ten records
C7_Witness ==
    /\ pc = "done"
    /\ extractor = "generate_mock_data"
    /\ result.type = "list"
    /\ Len(result.val) = Len(locations)

\* C8 as stated: a row with only two cells, or whose third cell (or the table
\* nested in it) gives an empty text, gets the time captured before the loop;
\* a row whose third cell gives a non-empty text that is not numeric keeps it
C8_TimestampOfRow ==
    extractor \in TolerantExtractors =>
      \A k \in 1..Len(data) :
        LET cells == OwnCells(RowOf(k)) IN
        /\ (Len(cells) = 2 \/ (Len(cells) >= 3 /\ CellValue(cells[3]) = <<>>)) =>
              data[k]["Date & Time"] = PyStr(current_datetime)
        /\ (Len(cells) >= 3 /\ CellValue(cells[3]) # <<>>
              /\ ~AllNumericChars(CellValue(cells[3]))) =>
              data[k]["Date & Time"] = PyStr(CellValue(cells[3]))

C10_WaterLevelOfRow ==
    extractor \in TolerantExtractors =>
      \A k \in 1..Len(data) :
        Len(OwnCells(RowOf(k))) >= 2 =>
          data[k]["Water Level (Feet)"] = PyStr(CellValue(OwnCells(RowOf(k))[2]))

(***************************************************************************)
(* Properties of the mock records                                          *)
(***************************************************************************)
\* the number a digit character stands for
DigitValue(c) == CHOOSE d \in 0..9 : DigitChars[d + 1] = c
IsDigits(s) == s # <<>> /\ \A k \in 1..Len(s) : s[k] \in Digits
RECURSIVE NatVal(_)
NatVal(s) == IF s = <<>> THEN 0
             ELSE NatVal(SubSeq(s, 1, Len(s) - 1)) * 10 + DigitValue(s[Len(s)])

\* s is a decimal numeral with one or two decimals whose value lies between 0
\* and MaxLevel
IsLevelString(s) ==
    \E d \in 1..Len(s) :
      LET whole == SubSeq(s, 1, d - 1)
          frac == SubSeq(s, d + 1, Len(s))
      IN  /\ s[d] = "."
          /\ IsDigits(whole)
          /\ IsDigits(frac)
          /\ Len(frac) <= 2
          /\ NatVal(whole) * Hundred
               + (IF Len(frac) = 1 THEN NatVal(frac) * 10 ELSE NatVal(frac))
             \in 0..(MaxLevel * Hundred)

\* C11: generate_mock_data returns exactly 10 records, one for each of the 10
\* location names in their order and none repeated, each water level the
\* string of a number between 0 and 250, all with the same 'Date & Time'
C11_MockRecords ==
    (extractor = "generate_mock_data" /\ pc = "done") =>
      /\ result.type = "list"
      /\ Len(result.val) = 10
      /\ Len(locations) = 10
      /\ \A k \in 1..10 :
            /\ result.val[k]["Location"] = PyStr(locations[k])
            /\ result.val[k]["Water Level (Feet)"].type = "str"
            /\ IsLevelString(result.val[k]["Water Level (Feet)"].val)
            /\ result.val[k]["Date & Time"] = result.val[1]["Date & Time"]
      /\ \A j, k \in 1..10 :
            j # k => result.val[j]["Location"] # result.val[k]["Location"]

\* the generator has drawn the largest level for the first location and a
\* different level for the second, after the clock had advanced
C11_Witness ==
    /\ extractor = "generate_mock_data"
    /\ pc = "done"
    /\ now > 0
    /\ result.val[1]["Water Level (Feet)"] = PyStr(<<"2", "5", "0", ".", "0">>)
    /\ result.val[2]["Water Level (Feet)"] # result.val[1]["Water Level (Feet)"]

(***************************************************************************)
(* Properties of save_to_csv and main                                      *)
(***************************************************************************)
\* the files whose name carries the date of time t
SnapshotsOf(fs, t) == {q \in DOMAIN fs : Contains(StrfYmd(t), q)}

\* the times of the model that fall on another date than t
OtherDates(t) == {u \in 0..MaxClock : DayOf(u) # DayOf(t)}

\* C12: a call of save_to_csv without filename that succeeds writes
\* data/water_level_data_<YYYY-MM-DD>.csv for the current date; after it the
\* date has exactly one snapshot file, holding the records of this call alone,
\* and the files of the other dates are as they were
C12_OneSnapshotPerDate ==
    [][(pc = "save_to_csv" /\ now' = now /\ filename'.type = "str") =>
          LET path == filename'.val IN
          /\ path = <<"d","a","t","a","/","w","a","t","e","r","_","l","e","v","e","l",
                      "_","d","a","t","a","_">> \o StrfYmd(now) \o <<".","c","s","v">>
          /\ SnapshotsOf(files', now) = {path}
          /\ files'[path] = ToCsv(result'.val)
          /\ DOMAIN files' = DOMAIN files \cup {path}
          /\ \A q \in DOMAIN files : q # path => files'[q] = files[q]
          /\ \A u \in OtherDates(now) : SnapshotsOf(files', u) = SnapshotsOf(files, u)
      ]_vars

\* two dates have their snapshot each, with different contents, and the one
\* of the current date holds the records of the last call
C12_Witness ==
    /\ pc = "save_to_csv"
    /\ filename.type = "str"
    /\ Cardinality(DOMAIN files) = 2
    /\ files[filename.val] = ToCsv(result.val)
    /\ \E q \in DOMAIN files : files[q] # files[filename.val]
    /\ Len(result.val) = 2

\* what a call of save_to_csv has left: a path returned is the path of a
\* file in the output directory, and an empty or None argument gives None
C13_Returned ==
    pc = "save_to_csv" =>
      /\ filename.type = "str" =>
            /\ Truthy(result)
            /\ filename.val \in DOMAIN files
            /\ OUTPUT_DIR \in dirs
      /\ (result.type \in {"list", "NoneType"} /\ ~Truthy(result)) => filename = None
      /\ filename.type = "raised" => filename.by # "to_csv"

\* a call with an empty or None argument leaves the file system as it was
C13_EmptyLeavesFiles ==
    [][(pc = "save_to_csv" /\ now' = now /\ ~Truthy(result')) =>
          (files' = files /\ dirs' = dirs)]_vars

\* C13: save_to_csv returns the path of the CSV file it created; given an
\* empty list or None it returns None and creates neither the output
\* directory nor a file; when writing fails it returns None and does not raise
C13_SaveToCsvReturn == []C13_Returned /\ C13_EmptyLeavesFiles

\* the write has failed on a file system without files: the directory was
\* made, no file is there and None was returned
C13_Witness ==
    /\ pc = "save_to_csv"
    /\ Truthy(result)
    /\ result.type = "list"
    /\ filename = None
    /\ OUTPUT_DIR \in dirs
    /\ files = <<>>

\* C14: in each of the three scripts a run that main ends itself ends with
\* status 1 exactly when the scrape result is empty or save_to_csv returned
\* None; save_to_csv is never called after an empty scrape result; the run
\* ends as successful only after save_to_csv returned the path of the file
C14_MainExitStatus ==
    /\ pc = "save" => Truthy(result)
    /\ pc = "exit" =>
          /\ exit_status \in {0, 1}
          /\ (exit_status = 1) <=> (~Truthy(result) \/ filename = None)
          /\ ~Truthy(result) => filename = Unset
          /\ exit_status = 0 =>
                /\ filename.type = "str"
                /\ filename.val \in DOMAIN files

\* the scrape gave records, save_to_csv returned None and main ended the run
\* with status 1
C14_Witness ==
    /\ pc = "exit"
    /\ Truthy(result)
    /\ filename = None
    /\ exit_status = 1

(***************************************************************************)
(* Properties of the retry loops                                           *)
(***************************************************************************)
\* the run is over
Done == pc \in {"exit", "crashed"}

\* no entry of the endpoint list of the running strategy occurs twice
NoRepeat(list) == \A j, k \in 1..Len(list) : j # k => list[j] # list[k]

\* at most max_retries + 1 attempts are begun, and the endpoint loop of a
\* strategy walks a list without repeated entries
C15_Bounded ==
    /\ attempt <= max_retries + 1
    /\ (pc \in {"v3_sel_proxy", "v3_selenium", "v3_indian", "v3_web", "v3_service",
                "v3_failed", "sel_setup", "sel_page"}) => attempt <= max_retries
    /\ NoRepeat(proxies)
    /\ proxy_i <= Len(proxies) + 1
    /\ sleeps <= max_retries

\* within one invocation of a strategy the endpoint loop only moves forward,
\* one entry at a time, and nothing sleeps once the last attempt has begun
C15_Forward ==
    [][/\ (Len(started') = Len(started) /\ attempt' = attempt) =>
             (proxies' = proxies /\ proxy_i' \in {proxy_i, proxy_i + 1})
       /\ proxies' # proxies => proxy_i' = 1
       /\ attempt >= max_retries => sleeps' = sleeps]_vars

\* C15: scrape_water_level_data of scrape_water_level_v3.py and of
\* scrape_water_level_selenium.py makes at most max_retries + 1 attempts, each
\* strategy tries each entry of its list at most once in an invocation, no
\* sleep follows the last attempt, and every run comes to its end
C15_Terminates == []C15_Bounded /\ C15_Forward /\ <>Done

\* a run of scrape_water_level_selenium.py in which all three attempts raised
\* has slept twice and has ended
C15_Witness ==
    /\ script = "selenium_variant"
    /\ pc = "exit"
    /\ attempt = max_retries + 1
    /\ sleeps = max_retries

\* when scrape_water_level_data of scrape_water_level_selenium.py has
\* returned: an empty list comes from the "return []" after the loop, with all
\* attempts made; otherwise the records come from an attempt of the loop
C16_ReturnedSelenium ==
    (script = "selenium_variant" /\ Returned) =>
      /\ result.type = "list"
      /\ ~Truthy(result) => (source = "all_failed" /\ attempt = max_retries + 1)
      /\ Truthy(result) => (source = "selenium_variant" /\ attempt <= max_retries)

\* after the return no attempt is made
C16_NoAttemptAfterReturn ==
    [][(script = "selenium_variant" /\ Returned) =>
          (attempt' = attempt /\ result' = result /\ live_drivers' = live_drivers)]_vars

PcAfterNothing ==
    [selenium_proxy |-> "v3_selenium", selenium |-> "v3_indian",
     indian_proxy |-> "v3_web", indian_web_proxy |-> "v3_service",
     proxy_service |-> "v3_failed"]

\* the strategy started last has just ended without data
EndsWithNothing ==
    /\ started' # <<>>
    /\ started'[Len(started')].gave = "nothing"
    /\ (Len(started') # Len(started) \/ started[Len(started)].gave = "running")

\* an attempt is given up only when every strategy the run can call was
\* started and gave nothing, and no failure inside a strategy ends the run
C17_AllTried ==
    script = "v3" =>
      /\ pc = "v3_failed" =>
            /\ Len(started) = Len(AvailableOrder)
            /\ \A k \in 1..Len(started) : started[k].gave = "nothing"
      /\ pc = "crashed" => (Truthy(result) /\ filename.type = "raised")

\* a strategy that fails hands over to the next strategy of the order
C17_HandsOver ==
    [][(script = "v3" /\ EndsWithNothing) =>
          /\ pc' = PcAfterNothing[started'[Len(started')].name]
          /\ result' = result
          /\ attempt' = attempt]_vars

\* C17: in scrape_water_level_v3.py every failure of a strategy (curl exit
\* status, timeout, exception, content of no use, WebDriver setup failure,
\* Selenium not available) becomes a None or empty result inside the strategy,
\* and the later strategies of the attempt are still tried
C17_FailuresContained == []C17_AllTried /\ C17_HandsOver

\* all five strategies of one attempt have failed, each after the one before
C17_Witness ==
    /\ script = "v3"
    /\ pc = "v3_failed"
    /\ SELENIUM_AVAILABLE
    /\ Len(started) = Len(StrategyOrder)
    /\ attempt = 0

\* the loop of a curl strategy is left before its list is used up: the
\* strategy has returned content that passed the usefulness check
ContentReturned(strategy) ==
    /\ script = "v3"
    /\ pc = LoopPc[strategy]
    /\ proxy_i <= Len(proxies)
    /\ pc' # pc

\* C18: in scrape_water_level_v3.py, when a curl strategy returns content that
\* passed the usefulness check and extract_data_from_html gives None or an
\* empty list for it, scrape_water_level_data neither returns nor gives up:
\* it goes on with the next strategy of the same attempt
C18_NoDataGoesOn ==
    [][\A strategy \in CurlStrategies :
         ContentReturned(strategy) =>
           \/ pc' = "main" /\ Truthy(result') /\ result'.type = "list"
           \/ /\ pc' = PcAfterNothing[strategy]
              /\ started' = Ended("nothing")
              /\ result' = result
              /\ attempt' = attempt]_vars

\* the Indian proxy strategy returned content from an endpoint of its list,
\* the extraction gave nothing, and the Indian web proxy strategy is next
C18_Witness ==
    /\ script = "v3"
    /\ pc = "v3_web"
    /\ started # <<>>
    /\ started[Len(started)] = [name |-> "indian_proxy", gave |-> "nothing"]
    /\ proxy_i <= Len(proxies)

\* the page an endpoint delivered: for api.allorigins.win the text inside
\* the JSON answer, for the other endpoints the output of curl
Delivered(k) ==
    IF started[1].name = "proxy_service" /\ proxies[k] = "api.allorigins.win"
          /\ \E text \in PageSources : curl_results[k].stdout = JsonWrap(text)
    THEN CHOOSE text \in PageSources : curl_results[k].stdout = JsonWrap(text)
    ELSE curl_results[k].stdout

\* curl exited with 0 at endpoint k and what it delivered has '<table' or
\* 'water level' in it, in any case of the letters
Qualifies(k) ==
    /\ curl_results[k].kind = "zero"
    /\ curl_results[k].stdout # JsonNull
    /\ \/ Contains(<<"<","t","a","b","l","e">>, Lower(Delivered(k)))
       \/ Contains(<<"w","a","t","e","r"," ","l","e","v","e","l">>, Lower(Delivered(k)))

\* C19: a curl strategy returns the content of the first endpoint of its list,
\* in the order tried, for which curl exited with 0 and the content has
\* '<table' or 'water level' in it; it returns None only when every endpoint
\* was tried and none qualified; it never returns content that fails the test
C19_FirstQualifying ==
    (pc = "done" /\ curl_results # <<>>) =>
      IF \E k \in 1..Len(proxies) : Qualifies(k)
      THEN LET first == CHOOSE k \in 1..Len(proxies) :
                          Qualifies(k) /\ \A j \in 1..(k - 1) : ~Qualifies(j)
           IN  /\ result = PyStr(Delivered(first))
               /\ proxy_i = first
      ELSE result = None /\ proxy_i = Len(proxies) + 1

\* the relay strategy skipped two endpoints and returned what the third gave
C19_Witness ==
    /\ pc = "done"
    /\ curl_results # <<>>
    /\ started[1].name = "proxy_service"
    /\ result.type = "str"
    /\ proxy_i = 3
    /\ curl_results[1].kind = "zero"
    /\ curl_results[2].kind = "raised"

(***************************************************************************)
(* Properties of the WebDrivers                                            *)
(***************************************************************************)
\* the positions at which a Selenium strategy holds a driver
DriverPcs == {"v3_sel_proxy_page", "v3_selenium_page", "sel_page"}

GivesRecord(e, row) ==
    \/ e \in TolerantExtractors
    \/ /\ Len(TdsIn(row)) >= 3
       /\ Truthy(FindTable(TdsIn(row)[2]))
       /\ Truthy(FindTd(FindTable(TdsIn(row)[2])))

\* the indexes below n of the rows walked whose processing gave a record
Survivors(n) ==
    SelectSeq([j \in 1..(n - 1) |-> j],
              LAMBDA j : j \notin row_faults /\ GivesRecord(extractor, data_rows[j]))

\* C21: a row whose processing raises is the only row dropped: every other
\* row walked is processed, the records are in the order of their rows, and
\* there are never more records than rows walked
C21_RowErrorDropsRow ==
    (pc \in {"loop", "done"} /\ data_rows # <<>>) =>
      /\ Len(data) <= Len(data_rows)
      /\ Len(data) = Len(Survivors(i))
      /\ \A k \in 1..Len(data) :
            data[k]["Location"] =
               PyStr(Strip(TextOf(TdsIn(data_rows[Survivors(i)[k]])[1])))
      /\ pc = "done" => (i = Len(data_rows) + 1 /\ result = PyList(data))

\* the first of two data rows raised and the record of the second was emitted
C21_Witness ==
    /\ pc = "done"
    /\ extractor \in TolerantExtractors
    /\ Len(data_rows) = 2
    /\ 1 \in row_faults
    /\ 2 \notin row_faults
    /\ Len(data) = 1
    /\ data[1]["Location"] # PyStr(Strip(TextOf(TdsIn(data_rows[1])[1])))

\* the rows of the located table itself that have at least two td cells
RowsWithTwoCells == SelectSeq(table.rows, LAMBDA row : Len(OwnCells(row)) >= MinCols)

\* C22 as stated: the data rows of a tolerant extractor are exactly the rows of
\* the located table with at least two td cells, each gives one record when
\* no row raises, and a table without such a row gives None
C22_DataRowsOfTable ==
    (extractor \in TolerantExtractors /\ Truthy(table) /\ pc \in {"loop", "done"}) =>
      /\ data_rows = RowsWithTwoCells
      /\ pc = "done" =>
            IF RowsWithTwoCells = <<>>
            THEN result = None
            ELSE result = PyList(data) /\ Len(data) = Len(RowsWithTwoCells)

\* s is not empty and made of digits and dots only
OnlyDigitsAndDots(s) == s # <<>> /\ \A k \in 1..Len(s) : s[k] \in Digits \cup {"."}

\* C23 as stated: in a tolerant extractor a row whose third cell gives a value
\* of digits and dots only gets the time captured before the loop, and no
\* record has a 'Date & Time' of digits and dots only
C23_NumericThirdCell ==
    (extractor \in TolerantExtractors /\ pc \in {"loop", "done"}) =>
      \A k \in 1..Len(data) :
        LET cells == OwnCells(data_rows[Survivors(i)[k]]) IN
        /\ ~OnlyDigitsAndDots(data[k]["Date & Time"].val)
        /\ (Len(cells) >= 3 /\ OnlyDigitsAndDots(CellValue(cells[3]))) =>
              data[k]["Date & Time"] = PyStr(current_datetime)

====
